---- MODULE Spec2Model ----
(***************************************************************************)
(* State-machine model of djliden/dbx-aidev:                               *)
(*   - the three status-polling loops (poll_until_complete,                *)
(*     SQLExecutor.execute_sql, NotebookExecutor.run_notebook),            *)
(*   - NotebookExecutor.run_notebook_with_retry,                           *)
(*   - the dbai scaffolding command.                                       *)
(* Time is an integer number of seconds.  Only remote calls and sleeps     *)
(* advance the clock; two consecutive local statements read the same       *)
(* time.time().                                                            *)
(***************************************************************************)
EXTENDS Integers, Sequences, FiniteSets, TLC

VARIABLES
    op,        \* the operation entered: "none", "poll", "sql", "nb", or "sqlfile"
               \* while execute_sql_file has not entered execute_sql
    sqlFile,   \* the file_path given to execute_sql_file and what open() meets
    local,     \* what run_notebook_from_local meets: reading the local file and
               \* the upload call each return ("ok") or raise ("raise")
    pc,        \* position in it: "idle", "submit", "loop", "done"
    timeout,   \* timeout_seconds of the call
    interval,  \* seconds slept after a pending observation
    script,    \* the probe's behaviour: its answer to the 1st, 2nd, ... call
    now,       \* time.time()
    start,     \* start_time
    entered,   \* time.time() when the polling loop was entered
    trace,     \* what the call has done so far: upload, submit, probe, sleep events, a chunk
               \* event when get_statement_result_chunk_n was called, and a fetch
               \* event when _get_statement_results / get_notebook_output returned
    result,    \* the value returned (NoResult until the call returns)
    maxRetries,  \* max_retries of run_notebook_with_retry
    attempt,     \* the for-loop variable of run_notebook_with_retry
    runScript,   \* status returned by the 1st, 2nd, ... run_notebook call
    rtrace,      \* what the call has done so far: sleep and run_notebook events
    rpc,         \* position in run_notebook_with_retry: "idle", "loop", "done"
    retResult,   \* the value run_notebook_with_retry returned
    retRaised,   \* TRUE when an exception escaped run_notebook_with_retry
    tplDir,      \* whether the bundled template directory exists
    tplRoot,     \* templates/CLAUDE.md
    tplDocs,     \* templates/dbx_ai_docs
    tplCmds,     \* templates/.claude/commands
    root,        \* ./CLAUDE.md
    docs,        \* ./dbx_ai_docs
    cmds,        \* ./.claude/commands
    spc,         \* position in dbai: "idle", "root", "docs", "cmds", "done" (exit 0),
                 \* "failed" (typer.Exit(1)), "crashed" (an exception escaped)
    asked,       \* the prompts of the current run, in order, with their answers
    runNo,       \* number of runs of the command started so far
    allYes,      \* no prompt has been declined in any run so far
    pre,         \* the working directory when the current run started, which is
                 \* the one the previous run left
    cargs,       \* the arguments profile, host, token of create_workspace_client
    ccall        \* the WorkspaceClient(...) call it made: its keyword arguments

pollVars == <<op, sqlFile, local, pc, timeout, interval, script, now, start, entered,
              trace, result>>
retryVars == <<maxRetries, attempt, runScript, rtrace, rpc, retResult, retRaised>>
scaffVars == <<tplDir, tplRoot, tplDocs, tplCmds, root, docs, cmds, spc, asked, runNo,
               allYes, pre>>
clientVars == <<cargs, ccall>>
vars == <<pollVars, retryVars, scaffVars, clientVars>>

----------------------------------------------------------------------------
(* Bounds of the model *)

MaxTimeout == 11
MaxInterval == 2
MaxCallTime == 1
MaxScript == 2
MaxRetries == 2
MaxTplLen == 3
MaxDocLen == 2
MaxRuns == 2

(* Program constants *)

SqlPollInterval == 5
NbPollInterval == 10
RetryDelay == 30

----------------------------------------------------------------------------
(* Values *)

NoResult == [none |-> TRUE]
NoOutcome == [state |-> "-", result |-> "-"]
Raise == [state |-> "RAISE", result |-> "-"]
St(s) == [state |-> s, result |-> "-"]
Run(l, r) == [state |-> l, result |-> r]

\* A probe answers its i-th call with script[i]; past the end it repeats the last.
ProbeAt(s, i) == s[IF i < Len(s) THEN i ELSE Len(s)]

Ev(e, o) == [ev |-> e, o |-> o]
Probes(tr) == SelectSeq(tr, LAMBDA e : e.ev = "probe")
NumProbes(tr) == Len(Probes(tr))
NumSleeps(tr) == Len(SelectSeq(tr, LAMBDA e : e.ev = "sleep"))

\* What the probes of each loop may answer (a raise, or a status with this state).
PollAnswers == {St("SUCCESS"), St("FAILED"), St("RUNNING"), St("running"),
                St("QUEUED"), St(""), Raise}
SqlAnswers == {St("SUCCEEDED"), St("FAILED"), St("CANCELED"), St("PENDING"),
               St("RUNNING"), St("CLOSED"), Raise}
NbAnswers == {Run("TERMINATED", "SUCCESS"), Run("TERMINATED", "FAILED"),
              Run("SKIPPED", "SUCCESS"), Run("SKIPPED", "-"), Run("PENDING", "-"),
              Run("RUNNING", "-"),
              Run("INTERNAL_ERROR", "-"), Raise}

Scripts(A) == UNION {[1..n -> A] : n \in 1..MaxScript}
Timeouts == -1..MaxTimeout
Intervals == 1..MaxInterval
CallTimes == 0..MaxCallTime

----------------------------------------------------------------------------
(* utils.py *)

\* str.upper() on the state tags the probes answer with
Upper(s) == CASE s = "running" -> "RUNNING" [] OTHER -> s

PollTerminal == {"TERMINATED", "SKIPPED", "SUCCESS", "FAILED", "CANCELLED"}
PollPending == {"PENDING", "RUNNING", "EXECUTING"}

\* PollClass with 'SUCCESS' missing from the terminal list
MutPollClass(s) ==
    IF Upper(s) \in PollTerminal \ {"SUCCESS"} THEN "terminal"
    ELSE IF Upper(s) \in PollPending THEN "pending"
    ELSE "unknown"

\* the if / elif / else of poll_until_complete on status.get('state', '').upper()
PollClass(s) ==
    IF Upper(s) \in PollTerminal THEN "terminal"
    ELSE IF Upper(s) \in PollPending THEN "pending"
    ELSE "unknown"

\* LoopCond with <= in place of <
MutLoopCond(t, s, T) == t - s <= T

\* the while condition of the three loops: time.time() - start_time < timeout_seconds
LoopCond(t, s, T) == t - s < T

\* the return after the loop of poll_until_complete
PollTimeout(T) == [state |-> "TIMEOUT", message |-> T]

\* An optional string argument: None, the empty string, or a text
None == "<None>"
ArgValues == {None, "", "a", "b"}

\* the truth value Python gives an optional string in `if x:`
Truthy(x) == x # None /\ x # ""

\* no WorkspaceClient call yet; a call is the set of its <<keyword, value>> pairs
NoCall == [made |-> FALSE, kwargs |-> {}]
ClientIdle == cargs = [profile |-> None, host |-> None, token |-> None] /\ ccall = NoCall

\* CreateWorkspaceClient with `elif host or token`
MutCreateWorkspaceClient(profile, host, token) ==
    IF Truthy(profile) THEN {<<"profile", profile>>}
    ELSE IF Truthy(host) \/ Truthy(token) THEN {<<"host", host>>, <<"token", token>>}
    ELSE {}

\* create_workspace_client: the keyword arguments WorkspaceClient is called with
CreateWorkspaceClient(profile, host, token) ==
    IF Truthy(profile) THEN {<<"profile", profile>>}
    ELSE IF Truthy(host) /\ Truthy(token) THEN {<<"host", host>>, <<"token", token>>}
    ELSE {}

\* safe_get_error_message on a response dict d (a function on its keys)
SafeGetErrorMessage(d) ==
    IF "error" \in DOMAIN d THEN d["error"]
    ELSE IF "message" \in DOMAIN d THEN d["message"]
    ELSE IF "state_message" \in DOMAIN d THEN d["state_message"]
    ELSE "Unknown error occurred"

----------------------------------------------------------------------------
(* sql_executor.py *)

\* the if / elif / else of _wait_for_sql_completion on statement.status.state.value
SqlClass(s) ==
    IF s = "SUCCEEDED" THEN "success"
    ELSE IF s \in {"FAILED", "CANCELED"} THEN "failed"
    ELSE IF s \in {"PENDING", "RUNNING"} THEN "pending"
    ELSE "unknown"

\* What the remote side does during _get_statement_results
FetchCases == {"raise_get", "no_manifest", "zero_rows", "raise_chunk", "page",
               "two_rows", "no_schema", "no_data", "short_row", "dup_cols"}

\* The remote side in each case: whether get_statement and
\* get_statement_result_chunk_n return or raise, the manifest of the statement
\* (present or None, its total_row_count, its schema present or None, the names of
\* the schema's columns) and the data_array of chunk 0 (present or None, its rows)
Response(f) ==
    [get |-> IF f = "raise_get" THEN "raise" ELSE "ok",
     manifest |-> f # "no_manifest",
     total |-> CASE f = "zero_rows" -> 0 [] f = "two_rows" -> 5 [] OTHER -> 1,
     schema |-> f # "no_schema",
     columns |-> CASE f \in {"two_rows", "short_row"} -> <<"c1", "c2">>
                   [] f = "dup_cols" -> <<"c1", "c1">>
                   [] OTHER -> <<"c1">>,
     chunk |-> IF f = "raise_chunk" THEN "raise" ELSE "ok",
     hasData |-> f # "no_data",
     rows |-> CASE f = "two_rows" -> <<(<<"v1", "v2">>), (<<"w1", "w2">>)>>
                [] f = "dup_cols" -> <<(<<"v1", "v2">>)>>
                [] OTHER -> <<(<<"v1">>)>>]

\* HasRows fetching the page whenever there is a manifest
MutHasRows(r) == r.manifest

\* statement.manifest and statement.manifest.total_row_count > 0
HasRows(r) == r.manifest /\ r.total > 0

\* Zip keeping the first value of a repeated column name
MutZip(columns, row) ==
    LET n == IF Len(columns) < Len(row) THEN Len(columns) ELSE Len(row)
    IN  [c \in {columns[j] : j \in 1..n} |->
            row[CHOOSE j \in 1..n : columns[j] = c
                                    /\ \A k \in 1..n : columns[k] = c => k >= j]]

\* dict(zip(columns, row)): pairs up to the shorter length, a later pair replacing
\* an earlier one with the same column name
Zip(columns, row) ==
    LET n == IF Len(columns) < Len(row) THEN Len(columns) ELSE Len(row)
    IN  [c \in {columns[j] : j \in 1..n} |->
            row[CHOOSE j \in 1..n : columns[j] = c
                                    /\ \A k \in 1..n : columns[k] = c => k <= j]]

\* whether _get_statement_results calls get_statement_result_chunk_n
ChunkFetched(f) == Response(f).get = "ok" /\ HasRows(Response(f))

\* _get_statement_results
GetStatementResults(f) ==
    LET r == Response(f)
        columns == IF r.schema THEN r.columns ELSE <<>>
    IN  IF r.get = "raise" THEN [columns |-> <<>>, data |-> <<>>, error |-> f]
        ELSE IF HasRows(r)
        THEN IF r.chunk = "raise" THEN [columns |-> <<>>, data |-> <<>>, error |-> f]
             ELSE [columns |-> columns,
                   data |-> IF r.hasData
                            THEN [i \in 1..Len(r.rows) |-> Zip(columns, r.rows[i])]
                            ELSE <<>>,
                   total_row_count |-> r.total]
        ELSE [columns |-> <<>>, data |-> <<>>, total_row_count |-> 0]

\* SqlSuccess downgrading the status when the results carry an error
MutSqlSuccess(t, s, f) ==
    [status |-> IF "error" \in DOMAIN GetStatementResults(f) THEN "ERROR" ELSE "SUCCESS",
     statement_id |-> "stmt", execution_time |-> t - s,
     row_count |-> Len(GetStatementResults(f).data),
     results |-> GetStatementResults(f)]

\* the SUCCEEDED branch of _wait_for_sql_completion
SqlSuccess(t, s, f) ==
    [status |-> "SUCCESS", statement_id |-> "stmt", execution_time |-> t - s,
     row_count |-> Len(GetStatementResults(f).data),
     results |-> GetStatementResults(f)]

\* SqlFailed reporting every such state as FAILED
MutSqlFailed(s) ==
    [status |-> "FAILED", statement_id |-> "stmt",
     error |-> SafeGetErrorMessage([error |-> "remote error", state |-> s])]

\* the FAILED / CANCELED branch of _wait_for_sql_completion
SqlFailed(s) ==
    [status |-> s, statement_id |-> "stmt",
     error |-> SafeGetErrorMessage([error |-> "remote error", state |-> s])]

\* SqlTimeout carrying an error text in place of timeout_seconds
MutSqlTimeout(T) == [status |-> "TIMEOUT", statement_id |-> "stmt", error |-> "timed out"]

\* the return after the loop of _wait_for_sql_completion
SqlTimeout(T) == [status |-> "TIMEOUT", statement_id |-> "stmt", timeout_seconds |-> T]

\* the except branch of execute_sql and of run_notebook
ErrorResult(e) == [status |-> "ERROR", error |-> e]

\* file paths given to execute_sql_file, and what open() / read() meets there
Paths == {"a.sql", "b.sql"}
FileKinds == {"missing", "denied", "ok"}
NoSqlFile == [path |-> "-", kind |-> "none"]

\* str(e) of the exception open() raises
OpenError(k, p) ==
    IF k = "missing" THEN "[Errno 2] No such file or directory: " \o p
    ELSE "[Errno 13] Permission denied: " \o p

\* ReadFailure without the FileNotFoundError handler
MutReadFailure(k, p) == ErrorResult(OpenError(k, p))

\* the two except branches of execute_sql_file
ReadFailure(k, p) ==
    IF k = "missing" THEN ErrorResult("File not found: " \o p)
    ELSE ErrorResult(OpenError(k, p))

----------------------------------------------------------------------------
(* notebook_executor.py *)

\* the if / elif / else of _wait_for_completion on life_cycle_state.value
NbClass(s) ==
    IF s \in {"TERMINATED", "SKIPPED"} THEN "terminal"
    ELSE IF s \in {"PENDING", "RUNNING"} THEN "pending"
    ELSE "unknown"

\* ResultState with an absent result state taken for a success
MutResultState(r) == IF r = "-" THEN "SUCCESS" ELSE r

\* what reading the local file and the upload call of run_notebook_from_local do
LocalCases == {"ok", "raise"}
NoLocal == [read |-> "-", upload |-> "-"]

\* result_state.value if result_state else 'UNKNOWN'
ResultState(r) == IF r = "-" THEN "UNKNOWN" ELSE r

\* What the remote side does during get_notebook_output
OutputCases == {"raise", "none", "text"}

\* get_notebook_output
GetNotebookOutput(c) ==
    CASE c = "raise" -> [error |-> "output error"]
      [] c = "none" -> [result |-> "None", truncated |-> FALSE]
      [] OTHER -> [result |-> "text", truncated |-> FALSE]

\* the result_state == 'SUCCESS' branch of _wait_for_completion
NbSuccess(t, s, c) ==
    [status |-> "SUCCESS", run_id |-> 1, run_page_url |-> "url",
     execution_time |-> t - s, output |-> GetNotebookOutput(c)]

\* the else branch of _wait_for_completion for a terminal life-cycle state
NbFailed(r) ==
    [status |-> "FAILED", run_id |-> 1, run_page_url |-> "url",
     error_state |-> ResultState(r),
     error_message |-> SafeGetErrorMessage([state_message |-> "remote message"])]

\* the return after the loop of _wait_for_completion
NbTimeout(T) == [status |-> "TIMEOUT", run_id |-> 1, timeout_seconds |-> T]

----------------------------------------------------------------------------
(* cli/commands/dbai.py *)

(* A text is a sequence of tokens: "M" is the heading text                   *)
(* '# Databricks AI Development Setup Tool', "K" the word 'dbx-aidev', "\n"  *)
(* a line break, " " a blank other than a line break and "x" any other text. *)
(* A file is absent or has a text; a directory is absent or holds files,     *)
(* each a <<name, content>>; the path dbx_ai_docs may also be taken by a      *)
(* regular file.  The code strips blanks from the existing       *)
(* document only; in a template it treats " " as it treats "x", so template  *)
(* texts are drawn without it.                                               *)
Tokens == {"M", "K", "x", "\n"}
DocTokens == Tokens \cup {" "}
Texts(n) == UNION {[1..k -> Tokens] : k \in 0..n}
DocTexts(n) == UNION {[1..k -> DocTokens] : k \in 0..n}
NoFile == [exists |-> FALSE, text |-> <<>>]
File(t) == [exists |-> TRUE, text |-> t]
NoDir == [exists |-> FALSE, isdir |-> FALSE, files |-> {}]
Dir(fs) == [exists |-> TRUE, isdir |-> TRUE, files |-> fs]
\* a path that exists but is a regular file, where the code expects a directory
NotADir == [exists |-> TRUE, isdir |-> FALSE, files |-> {}]
IsMd(n) == n \in {"a.md", "b.md", "c.md", "g.md", "h.md"}

\* str.split('\n')
RECURSIVE Split(_)
Split(t) ==
    IF \A i \in 1..Len(t) : t[i] # "\n" THEN <<t>>
    ELSE LET i == CHOOSE i \in 1..Len(t) : t[i] = "\n" /\ \A j \in 1..(i - 1) : t[j] # "\n"
         IN  <<SubSeq(t, 1, i - 1)>> \o Split(SubSeq(t, i + 1, Len(t)))

\* '\n'.join(lines)
RECURSIVE Join(_)
Join(ls) ==
    IF ls = <<>> THEN <<>>
    ELSE IF Len(ls) = 1 THEN ls[1]
    ELSE ls[1] \o <<"\n">> \o Join(Tail(ls))

\* StartsWithMarker accepting the heading text anywhere in the line
MutStartsWithMarker(line) == \E i \in 1..Len(line) : line[i] = "M"

\* line.startswith('# Databricks AI Development Setup Tool')
StartsWithMarker(line) == line # <<>> /\ line[1] = "M"

\* _extract_databricks_section
ExtractDatabricksSection(content) ==
    LET lines == Split(content)
        hits == {i \in 1..Len(lines) : StartsWithMarker(lines[i])}
        startIdx == IF hits = {} THEN 1 ELSE CHOOSE i \in hits : \A j \in hits : i <= j
    IN  Join(SubSeq(lines, startIdx, Len(lines)))

\* str.strip(): RStrip stripping the blanks at the start as well
RECURSIVE MutRStrip(_)
MutRStrip(t) ==
    IF t # <<>> /\ t[Len(t)] \in {"\n", " "} THEN MutRStrip(SubSeq(t, 1, Len(t) - 1))
    ELSE IF t # <<>> /\ t[1] \in {"\n", " "} THEN MutRStrip(Tail(t))
    ELSE t

\* str.rstrip()
RECURSIVE RStrip(_)
RStrip(t) ==
    IF t # <<>> /\ t[Len(t)] \in {"\n", " "} THEN RStrip(SubSeq(t, 1, Len(t) - 1))
    ELSE t

\* AlreadyHas with the heading test left out
MutAlreadyHas(t) == \E i \in 1..Len(t) : t[i] = "K"

\* '# Databricks AI Development Setup Tool' in dst_content or 'dbx-aidev' in dst_content
AlreadyHas(t) == \E i \in 1..Len(t) : t[i] \in {"M", "K"}

\* AppendToClaudeMd without the test for content that is already there
MutAppendToClaudeMd(src, dst) ==
    RStrip(dst) \o <<"\n", "\n">> \o ExtractDatabricksSection(src)

\* _append_to_claude_md: the text of CLAUDE.md after the call
AppendToClaudeMd(src, dst) ==
    IF AlreadyHas(dst) THEN dst
    ELSE RStrip(dst) \o <<"\n", "\n">> \o ExtractDatabricksSection(src)

\* MergeClaudeCommands copying over a file of the same name
MutMergeClaudeCommands(src, dst) ==
    {f \in dst : f[1] \notin {g[1] : g \in {h \in src : IsMd(h[1])}}}
        \cup {f \in src : IsMd(f[1])}

\* _merge_claude_commands: the files of the destination directory after the call
MergeClaudeCommands(src, dst) ==
    dst \cup {f \in src : IsMd(f[1]) /\ f[1] \notin {g[1] : g \in dst}}

\* ExistingCommands listing every file: glob('*')
MutExistingCommands(d) == d.files

\* existing_commands = list(claude_commands_dst.glob('*.md'))
ExistingCommands(d) == {f \in d.files : IsMd(f[1])}

Cwd == <<root, docs, cmds>>

ScaffIdle ==
    /\ tplDir = FALSE /\ tplRoot = NoFile /\ tplDocs = NoDir /\ tplCmds = NoDir
    /\ root = NoFile /\ docs = NoDir /\ cmds = NoDir
    /\ spc = "idle" /\ asked = <<>> /\ runNo = 0 /\ allYes = TRUE
    /\ pre = <<NoFile, NoDir, NoDir>>

\* The template sets and working directories the command is run on
TplRoots == {NoFile} \cup {File(t) : t \in Texts(MaxTplLen)}
Roots == {NoFile} \cup {File(t) : t \in DocTexts(MaxDocLen)}
FewTplRoots == {NoFile, File(<<"x", "\n", "M", "x">>), File(<<"x">>)}
FewRoots == {NoFile, File(<<"x", "\n">>), File(<<"K">>)}
TplDocsSet == {NoDir, Dir({<<"g.md", "t">>})}
DocsSet == {NoDir, Dir({}), Dir({<<"g.md", "u">>}), Dir({<<"h.md", "u">>}), NotADir}
TplCmdsSet == {NoDir, Dir({}), Dir({<<"a.md", "t">>}),
               Dir({<<"a.md", "t">>, <<"b.md", "t">>, <<"n.txt", "t">>})}
CmdsSet == {NoDir, Dir({}), Dir({<<"a.md", "u">>}), Dir({<<"c.md", "u">>}),
            Dir({<<"n.txt", "u">>})}

\* Before the first run: either every CLAUDE.md pair over one fixed pair of
\* directories, or every directory combination over a few CLAUDE.md pairs.
ScaffInit ==
    /\ spc = "idle" /\ asked = <<>> /\ runNo = 0 /\ allYes = TRUE
    /\ tplDir \in BOOLEAN
    /\ \/ /\ tplRoot \in TplRoots /\ root \in Roots
          /\ tplDocs = Dir({<<"g.md", "t">>}) /\ docs = Dir({<<"h.md", "u">>})
          /\ tplCmds = Dir({<<"a.md", "t">>}) /\ cmds = NoDir
       \/ /\ tplRoot \in FewTplRoots /\ root \in FewRoots
          /\ tplDocs \in TplDocsSet /\ docs \in DocsSet
          /\ tplCmds \in TplCmdsSet /\ cmds \in CmdsSet
    /\ tplDir = FALSE => (tplRoot = NoFile /\ tplDocs = NoDir /\ tplCmds = NoDir)
    /\ pre = <<root, docs, cmds>>

Ask(art, ans) == [art |-> art, ans |-> ans]

\* dbai is run: _copy_templates finds the template directory
Start ==
    /\ spc \in {"idle", "done"}
    /\ runNo < MaxRuns
    /\ tplDir
    /\ spc' = "root" /\ asked' = <<>> /\ runNo' = runNo + 1
    /\ pre' = Cwd
    /\ UNCHANGED <<tplDir, tplRoot, tplDocs, tplCmds, root, docs, cmds, allYes,
                   pollVars, retryVars, clientVars>>

\* dbai is run and the template directory is missing: typer.Exit(1)
StartNoTemplates ==
    /\ spc \in {"idle", "done"}
    /\ runNo < MaxRuns
    /\ ~tplDir
    /\ spc' = "failed" /\ asked' = <<>> /\ runNo' = runNo + 1
    /\ pre' = Cwd
    /\ UNCHANGED <<tplDir, tplRoot, tplDocs, tplCmds, root, docs, cmds, allYes,
                   pollVars, retryVars, clientVars>>

\* CLAUDE.md: copy when absent, else prompt and append on yes
RootStep ==
    /\ spc = "root"
    /\ IF ~tplRoot.exists THEN UNCHANGED <<root, asked, allYes>>
       ELSE IF ~root.exists THEN root' = tplRoot /\ UNCHANGED <<asked, allYes>>
       ELSE \E ans \in BOOLEAN :
               /\ asked' = Append(asked, Ask("root", ans))
               /\ allYes' = (allYes /\ ans)
               /\ root' = IF ans THEN File(AppendToClaudeMd(tplRoot.text, root.text))
                          ELSE root
    /\ spc' = "docs"
    /\ UNCHANGED <<tplDir, tplRoot, tplDocs, tplCmds, docs, cmds, runNo, pre,
                   pollVars, retryVars, clientVars>>

\* ReplaceTree without the rmtree: the template tree copied over the existing one
MutReplaceTree(src, dst) ==
    Dir({f \in dst.files : f[1] \notin {g[1] : g \in src.files}} \cup src.files)

\* shutil.rmtree(docs_dst); shutil.copytree(docs_src, docs_dst)
ReplaceTree(src, dst) == Dir(src.files)

\* shutil.rmtree(docs_dst) raises NotADirectoryError on a regular file
RmtreeRaises(d) == d.exists /\ ~d.isdir

\* DocsStep replacing the tree whatever the answer
MutDocsStep ==
    /\ spc = "docs"
    /\ IF ~tplDocs.exists THEN UNCHANGED <<docs, asked, allYes>>
       ELSE IF ~docs.exists THEN docs' = tplDocs /\ UNCHANGED <<asked, allYes>>
       ELSE \E ans \in BOOLEAN :
               /\ asked' = Append(asked, Ask("docs", ans))
               /\ allYes' = (allYes /\ ans)
               /\ docs' = tplDocs
    /\ spc' = "cmds"
    /\ UNCHANGED <<tplDir, tplRoot, tplDocs, tplCmds, root, cmds, runNo, pre,
                   pollVars, retryVars, clientVars>>

\* dbx_ai_docs: copy the tree when absent, else prompt and replace it on yes; the
\* exception of a failing rmtree is caught nowhere and ends the command
DocsStep ==
    /\ spc = "docs"
    /\ IF ~tplDocs.exists THEN spc' = "cmds" /\ UNCHANGED <<docs, asked, allYes>>
       ELSE IF ~docs.exists
            THEN docs' = tplDocs /\ spc' = "cmds" /\ UNCHANGED <<asked, allYes>>
       ELSE \E ans \in BOOLEAN :
               /\ asked' = Append(asked, Ask("docs", ans))
               /\ allYes' = (allYes /\ ans)
               /\ IF ~ans THEN docs' = docs /\ spc' = "cmds"
                  ELSE IF RmtreeRaises(docs) THEN docs' = docs /\ spc' = "crashed"
                  ELSE docs' = ReplaceTree(tplDocs, docs) /\ spc' = "cmds"
    /\ UNCHANGED <<tplDir, tplRoot, tplDocs, tplCmds, root, cmds, runNo, pre,
                   pollVars, retryVars, clientVars>>

\* .claude/commands: mkdir, then merge at once when it holds no *.md file, else
\* prompt and merge on yes; the command then prints its closing lines
CmdsStep ==
    /\ spc = "cmds"
    /\ IF ~tplCmds.exists THEN UNCHANGED <<cmds, asked, allYes>>
       ELSE IF ExistingCommands(cmds) = {}
            THEN /\ cmds' = Dir(MergeClaudeCommands(tplCmds.files, cmds.files))
                 /\ UNCHANGED <<asked, allYes>>
       ELSE \E ans \in BOOLEAN :
               /\ asked' = Append(asked, Ask("cmds", ans))
               /\ allYes' = (allYes /\ ans)
               /\ cmds' = IF ans THEN Dir(MergeClaudeCommands(tplCmds.files, cmds.files))
                          ELSE cmds
    /\ spc' = "done"
    /\ UNCHANGED <<tplDir, tplRoot, tplDocs, tplCmds, root, docs, runNo, pre,
                   pollVars, retryVars, clientVars>>

ScaffNext == Start \/ StartNoTemplates \/ RootStep \/ DocsStep \/ CmdsStep

----------------------------------------------------------------------------
(* The polling loops as one state machine *)

Class(o, s) ==
    CASE o = "poll" -> PollClass(s)
      [] o = "sql" -> (IF SqlClass(s) \in {"success", "failed"} THEN "terminal" ELSE SqlClass(s))
      [] OTHER -> NbClass(s)

\* what each call returns when its loop is left without a return inside it
AfterLoop(o, T) ==
    CASE o = "poll" -> PollTimeout(T)
      [] o = "sql" -> SqlTimeout(T)
      [] OTHER -> NbTimeout(T)

RetryIdle ==
    /\ maxRetries = 0 /\ attempt = 0 /\ runScript = <<>> /\ rtrace = <<>>
    /\ rpc = "idle" /\ retResult = NoResult /\ retRaised = FALSE

PollIdle ==
    /\ op = "none" /\ sqlFile = NoSqlFile /\ local = NoLocal /\ pc = "idle"
    /\ timeout = 0 /\ interval = 0 /\ script = <<>>
    /\ now = 0 /\ start = 0 /\ entered = 0 /\ trace = <<>> /\ result = NoResult

Init == PollIdle /\ RetryIdle /\ ScaffIdle /\ ClientIdle

\* poll_until_complete(get_status_func, timeout_seconds, poll_interval) is called
CallPoll ==
    /\ pc = "idle"
    /\ \E T \in Timeouts, I \in Intervals, s \in Scripts(PollAnswers) :
          /\ timeout' = T /\ interval' = I /\ script' = s
    /\ op' = "poll" /\ pc' = "loop" /\ start' = now
    /\ entered' = now
    /\ UNCHANGED <<sqlFile, local, now, trace, result, retryVars, scaffVars,
                   clientVars>>

\* execute_sql(query, warehouse_id, ..., timeout_seconds) is called: start_time is
\* taken before the statement is submitted
CallSql ==
    /\ pc = "idle"
    /\ \E T \in Timeouts, s \in Scripts(SqlAnswers) : timeout' = T /\ script' = s
    /\ interval' = SqlPollInterval
    /\ op' = "sql" /\ pc' = "submit" /\ start' = now
    /\ UNCHANGED <<sqlFile, local, now, trace, result, entered, retryVars, scaffVars,
                   clientVars>>

\* execute_sql_file(file_path, warehouse_id, ..., timeout_seconds) is called: it
\* returns from one of its except branches when the file cannot be read, and
\* otherwise enters execute_sql with the text it read
CallSqlFile ==
    /\ pc = "idle"
    /\ \E p \in Paths, k \in FileKinds, T \in Timeouts, s \in Scripts(SqlAnswers) :
          /\ sqlFile' = [path |-> p, kind |-> k]
          /\ IF k = "ok"
             THEN /\ timeout' = T /\ script' = s
                  /\ interval' = SqlPollInterval
                  /\ op' = "sql" /\ pc' = "submit" /\ start' = now
                  /\ UNCHANGED result
             ELSE /\ op' = "sqlfile" /\ pc' = "done"
                  /\ result' = ReadFailure(k, p)
                  /\ UNCHANGED <<timeout, interval, script, start>>
    /\ UNCHANGED <<local, now, trace, entered, retryVars, scaffVars,
                   clientVars>>

\* run_notebook(notebook_path, ..., timeout_seconds) is called
CallNb ==
    /\ pc = "idle"
    /\ \E T \in Timeouts, s \in Scripts(NbAnswers) : timeout' = T /\ script' = s
    /\ interval' = NbPollInterval
    /\ op' = "nb" /\ pc' = "submit"
    /\ UNCHANGED <<sqlFile, local, now, start, trace, result, entered, retryVars, scaffVars,
                   clientVars>>

\* CallNbLocal going on to run_notebook although the upload raised
MutCallNbLocal ==
    /\ pc = "idle"
    /\ \E r \in LocalCases, u \in LocalCases, T \in Timeouts, s \in Scripts(NbAnswers),
          d \in CallTimes :
          /\ local' = [read |-> r, upload |-> u]
          /\ IF r = "raise"
             THEN /\ op' = "nblocal" /\ pc' = "done"
                  /\ result' = ErrorResult("read error")
                  /\ UNCHANGED <<timeout, interval, script, now, trace>>
             ELSE /\ trace' = <<Ev("upload", IF u = "ok" THEN NoOutcome ELSE Raise)>>
                  /\ now' = now + d
                  /\ timeout' = T /\ script' = s /\ interval' = NbPollInterval
                  /\ op' = "nb" /\ pc' = "submit"
                  /\ UNCHANGED result
    /\ UNCHANGED <<sqlFile, start, entered, retryVars, scaffVars,
                   clientVars>>

\* run_notebook_from_local(local_path, workspace_path, ..., timeout_seconds) is
\* called: it reads the local file, uploads it (d seconds) and enters run_notebook;
\* an exception of the read or of the upload is caught by its except branch
CallNbLocal ==
    /\ pc = "idle"
    /\ \E r \in LocalCases, u \in LocalCases, T \in Timeouts, s \in Scripts(NbAnswers),
          d \in CallTimes :
          /\ local' = [read |-> r, upload |-> u]
          /\ IF r = "raise"
             THEN /\ op' = "nblocal" /\ pc' = "done"
                  /\ result' = ErrorResult("read error")
                  /\ UNCHANGED <<timeout, interval, script, now, trace>>
             ELSE IF u = "raise"
             THEN /\ op' = "nblocal" /\ pc' = "done"
                  /\ trace' = <<Ev("upload", Raise)>>
                  /\ now' = now + d
                  /\ result' = ErrorResult("upload error")
                  /\ UNCHANGED <<timeout, interval, script>>
             ELSE /\ trace' = <<Ev("upload", NoOutcome)>>
                  /\ now' = now + d
                  /\ timeout' = T /\ script' = s /\ interval' = NbPollInterval
                  /\ op' = "nb" /\ pc' = "submit"
                  /\ UNCHANGED result
    /\ UNCHANGED <<sqlFile, start, entered, retryVars, scaffVars,
                   clientVars>>

\* execute_statement / jobs.submit returns after d seconds; _wait_for_completion
\* then takes its own start_time
\* SubmitOk with the clock of execute_sql started after the submission as well
MutSubmitOk ==
    /\ pc = "submit"
    /\ \E d \in CallTimes :
          /\ now' = now + d
          /\ start' = now + d
    /\ trace' = Append(trace, Ev("submit", NoOutcome))
    /\ pc' = "loop"
    /\ entered' = now'
    /\ UNCHANGED <<op, sqlFile, local, timeout, interval, script, result, retryVars, scaffVars,
                   clientVars>>

SubmitOk ==
    /\ pc = "submit"
    /\ \E d \in CallTimes :
          /\ now' = now + d
          /\ start' = IF op = "nb" THEN now + d ELSE start
    /\ trace' = Append(trace, Ev("submit", NoOutcome))
    /\ pc' = "loop"
    /\ entered' = now'
    /\ UNCHANGED <<op, sqlFile, local, timeout, interval, script, result, retryVars, scaffVars,
                   clientVars>>

\* execute_statement / jobs.submit raises: the outer except returns an ERROR result
SubmitRaises ==
    /\ pc = "submit"
    /\ \E d \in CallTimes : now' = now + d
    /\ trace' = Append(trace, Ev("submit", Raise))
    /\ result' = ErrorResult("submit error")
    /\ pc' = "done"
    /\ UNCHANGED <<op, sqlFile, local, timeout, interval, script, start, entered, retryVars, scaffVars,
                   clientVars>>

\* the while condition is false: the loop ends and the code after it returns
LoopExit ==
    /\ pc = "loop"
    /\ ~LoopCond(now, start, timeout)
    /\ result' = AfterLoop(op, timeout)
    /\ pc' = "done"
    /\ UNCHANGED <<op, sqlFile, local, timeout, interval, script, now, start, trace, entered, retryVars, scaffVars,
                   clientVars>>

NextAnswer == ProbeAt(script, NumProbes(trace) + 1)

\* ProbeRaises with the exception swallowed and the loop continued
MutProbeRaises ==
    /\ pc = "loop"
    /\ LoopCond(now, start, timeout)
    /\ NextAnswer = Raise
    /\ \E d \in CallTimes : now' = now + d + interval
    /\ trace' = Append(trace, Ev("probe", NextAnswer))
    /\ UNCHANGED <<op, sqlFile, local, pc, timeout, interval, script, start, result, entered, retryVars, scaffVars,
                   clientVars>>

\* the status check raises: except ... break, then the code after the loop
ProbeRaises ==
    /\ pc = "loop"
    /\ LoopCond(now, start, timeout)
    /\ NextAnswer = Raise
    /\ \E d \in CallTimes : now' = now + d
    /\ trace' = Append(trace, Ev("probe", NextAnswer))
    /\ result' = AfterLoop(op, timeout)
    /\ pc' = "done"
    /\ UNCHANGED <<op, sqlFile, local, timeout, interval, script, start, entered, retryVars, scaffVars,
                   clientVars>>

\* the status check reports a pending / running state: sleep, then test the loop again
ProbePending ==
    /\ pc = "loop"
    /\ LoopCond(now, start, timeout)
    /\ NextAnswer # Raise
    /\ Class(op, NextAnswer.state) = "pending"
    /\ \E d \in CallTimes : now' = now + d + interval
    /\ trace' = trace \o <<Ev("probe", NextAnswer), Ev("sleep", NoOutcome)>>
    /\ UNCHANGED <<op, sqlFile, local, pc, timeout, interval, script, start, result, entered, retryVars, scaffVars,
                   clientVars>>

\* ProbeUnknown with the unknown state slept on like a pending one
MutProbeUnknown ==
    /\ pc = "loop"
    /\ LoopCond(now, start, timeout)
    /\ NextAnswer # Raise
    /\ Class(op, NextAnswer.state) = "unknown"
    /\ \E d \in CallTimes : now' = now + d + interval
    /\ trace' = trace \o <<Ev("probe", NextAnswer), Ev("sleep", NoOutcome)>>
    /\ UNCHANGED <<op, sqlFile, local, pc, timeout, interval, script, start, result, entered, retryVars, scaffVars,
                   clientVars>>

\* the status check reports a state in neither list: else ... break
ProbeUnknown ==
    /\ pc = "loop"
    /\ LoopCond(now, start, timeout)
    /\ NextAnswer # Raise
    /\ Class(op, NextAnswer.state) = "unknown"
    /\ \E d \in CallTimes : now' = now + d
    /\ trace' = Append(trace, Ev("probe", NextAnswer))
    /\ result' = AfterLoop(op, timeout)
    /\ pc' = "done"
    /\ UNCHANGED <<op, sqlFile, local, timeout, interval, script, start, entered, retryVars, scaffVars,
                   clientVars>>

\* the value returned from inside the loop on a terminal state; fetched tells
\* whether the branch fetched results or output (f, c: what that fetch meets)
TerminalResult(o, a, t, s, f, c) ==
    CASE o = "poll" -> [state |-> a.state]
      [] o = "sql" -> (IF SqlClass(a.state) = "success" THEN SqlSuccess(t, s, f)
                       ELSE SqlFailed(a.state))
      [] OTHER -> (IF ResultState(a.result) = "SUCCESS" THEN NbSuccess(t, s, c)
                   ELSE NbFailed(a.result))

Fetches(o, a) ==
    CASE o = "poll" -> FALSE
      [] o = "sql" -> SqlClass(a.state) = "success"
      [] OTHER -> ResultState(a.result) = "SUCCESS"

\* the status check reports a terminal state: the call returns from inside the loop
ProbeTerminal ==
    /\ pc = "loop"
    /\ LoopCond(now, start, timeout)
    /\ NextAnswer # Raise
    /\ Class(op, NextAnswer.state) = "terminal"
    /\ \E d \in CallTimes,
          f \in (IF op = "sql" /\ Fetches(op, NextAnswer) THEN FetchCases ELSE {"page"}),
          c \in (IF op = "nb" /\ Fetches(op, NextAnswer) THEN OutputCases ELSE {"text"}) :
          /\ now' = now + d
          /\ result' = TerminalResult(op, NextAnswer, now + d, start, f, c)
          /\ trace' = IF Fetches(op, NextAnswer)
                      THEN trace \o <<Ev("probe", NextAnswer)>>
                                 \o (IF op = "sql" /\ ChunkFetched(f)
                                     THEN <<Ev("chunk", NoOutcome)>> ELSE <<>>)
                                 \o <<Ev("fetch", St(IF op = "sql" THEN f ELSE c))>>
                      ELSE Append(trace, Ev("probe", NextAnswer))
    /\ pc' = "done"
    /\ UNCHANGED <<op, sqlFile, local, timeout, interval, script, start, entered, retryVars, scaffVars,
                   clientVars>>

PollNext ==
    \/ CallSqlFile
    \/ CallNbLocal
    \/ CallPoll \/ CallSql \/ CallNb
    \/ SubmitOk \/ SubmitRaises
    \/ LoopExit \/ ProbeRaises \/ ProbePending \/ ProbeUnknown \/ ProbeTerminal

SpecPoll == Init /\ [][PollNext]_vars

\* A call that was made runs on: the submission returns or raises, each status
\* check returns or raises, each sleep ends
PollStep ==
    \/ SubmitOk \/ SubmitRaises \/ LoopExit
    \/ ProbeRaises \/ ProbePending \/ ProbeUnknown \/ ProbeTerminal

\* The three loops are entered from poll_until_complete, execute_sql and
\* run_notebook; the file wrappers enter the same loops through the latter two
PollLiveNext ==
    \/ CallPoll \/ CallSql \/ CallNb
    \/ PollStep

SpecPollLive == Init /\ [][PollLiveNext]_vars /\ WF_vars(PollStep)

----------------------------------------------------------------------------
(* run_notebook_with_retry *)

\* The status tags run_notebook returns
RunStatuses == {"SUCCESS", "FAILED", "TIMEOUT", "ERROR"}
RunScripts == [1..(MaxRetries + 1) -> RunStatuses]
Retries == -1..MaxRetries

\* the i-th call of run_notebook within one run_notebook_with_retry
RunNotebook(i) == [status |-> runScript[i], run_id |-> i]

REv(e, n, r) == [ev |-> e, secs |-> n, res |-> r]
Runs(tr) == SelectSeq(tr, LAMBDA e : e.ev = "run")
Sleeps(tr) == SelectSeq(tr, LAMBDA e : e.ev = "sleep")

\* for attempt in range(max_retries + 1)
InRange(a, n) == a >= 0 /\ a < n + 1

\* if attempt > 0: time.sleep(30)
SleepsFirst(a) == a > 0

\* Returns with a TIMEOUT result returned without a retry
MutReturns(st, a, n) == st \in {"SUCCESS", "TIMEOUT"} \/ a = n

\* if result.get('status') == 'SUCCESS': return result / elif attempt == max_retries: return result
Returns(st, a, n) == st = "SUCCESS" \/ a = n

\* run_notebook_with_retry(notebook_path, max_retries) is called
CallRetry ==
    /\ rpc = "idle"
    /\ \E n \in Retries, s \in RunScripts : maxRetries' = n /\ runScript' = s
    /\ attempt' = 0
    /\ rpc' = "loop"
    /\ UNCHANGED <<rtrace, retResult, retRaised, pollVars, scaffVars, clientVars>>

\* one iteration of the for loop
Attempt ==
    /\ rpc = "loop"
    /\ InRange(attempt, maxRetries)
    /\ LET r == RunNotebook(Len(Runs(rtrace)) + 1)
           tr == IF SleepsFirst(attempt)
                 THEN Append(rtrace, REv("sleep", RetryDelay, NoResult))
                 ELSE rtrace
       IN  /\ rtrace' = Append(tr, REv("run", 0, r))
           /\ IF Returns(r.status, attempt, maxRetries)
              THEN retResult' = r /\ rpc' = "done" /\ attempt' = attempt
              ELSE retResult' = retResult /\ rpc' = rpc /\ attempt' = attempt + 1
    /\ UNCHANGED <<maxRetries, runScript, retRaised, pollVars, scaffVars, clientVars>>

\* the range is exhausted: return result, which is unbound when no iteration ran
Exhausted ==
    /\ rpc = "loop"
    /\ ~InRange(attempt, maxRetries)
    /\ IF Runs(rtrace) = <<>>
       THEN retRaised' = TRUE /\ retResult' = retResult
       ELSE retRaised' = retRaised /\ retResult' = Runs(rtrace)[Len(Runs(rtrace))].res
    /\ rpc' = "done"
    /\ UNCHANGED <<maxRetries, attempt, runScript, rtrace, pollVars, scaffVars, clientVars>>

RetryNext == CallRetry \/ Attempt \/ Exhausted

SpecRetry == Init /\ [][RetryNext]_vars

InitScaffold == PollIdle /\ RetryIdle /\ ScaffInit /\ ClientIdle

\* create_workspace_client is about to be called on any of the argument triples
InitClient ==
    /\ PollIdle /\ RetryIdle /\ ScaffIdle
    /\ cargs \in [profile : ArgValues, host : ArgValues, token : ArgValues]
    /\ ccall = NoCall

\* create_workspace_client(profile, host, token) runs
CreateClient ==
    /\ ~ccall.made
    /\ ccall' = [made |-> TRUE,
                 kwargs |-> CreateWorkspaceClient(cargs.profile, cargs.host, cargs.token)]
    /\ UNCHANGED <<cargs, pollVars, retryVars, scaffVars>>

SpecClient == InitClient /\ [][CreateClient]_vars

SpecScaffold == InitScaffold /\ [][ScaffNext]_vars

----------------------------------------------------------------------------
(* Vocabulary of the properties *)

Done == pc = "done"
Elapsed == now - start
Last(q) == q[Len(q)]
Min(a, b) == IF a < b THEN a ELSE b
IsProbe(e) == e.ev = "probe"
RaisedAt(e) == e.o = Raise

\* The tags each loop knows, as the documentation of the three loops lists them
KnownTags(o) ==
    CASE o = "poll" -> {"TERMINATED", "SKIPPED", "SUCCESS", "FAILED", "CANCELLED",
                        "PENDING", "RUNNING", "EXECUTING"}
      [] o = "sql" -> {"SUCCEEDED", "FAILED", "CANCELED", "PENDING", "RUNNING"}
      [] OTHER -> {"TERMINATED", "SKIPPED", "PENDING", "RUNNING"}

\* a status check that returned a tag the loop does not know
UnknownProbe(o, e) == IsProbe(e) /\ ~RaisedAt(e) /\ Upper(e.o.state) \notin KnownTags(o)

\* a probe that returns on every call and never with a terminal state
NeverTerminal(s) ==
    \A i \in 1..Len(s) :
        s[i] # Raise /\ Upper(s[i].state) \notin {"TERMINATED", "SKIPPED", "SUCCESS",
                                                   "FAILED", "CANCELLED"}

\* the index of the first SUCCESS in a sequence of statuses, past its end if none
FirstSuccess(s) ==
    IF \E i \in 1..Len(s) : s[i] = "SUCCESS"
    THEN CHOOSE i \in 1..Len(s) : s[i] = "SUCCESS" /\ \A j \in 1..(i - 1) : s[j] # "SUCCESS"
    ELSE Len(s) + 1

\* the first status check of execute_sql / run_notebook happened and reported success
FirstCheckSucceeds ==
    /\ Probes(trace) # <<>>
    /\ IF op = "sql" THEN Probes(trace)[1].o.state = "SUCCEEDED"
       ELSE /\ Probes(trace)[1].o.state \in {"TERMINATED", "SKIPPED"}
            /\ Probes(trace)[1].o.result = "SUCCESS"

\* execute_sql / run_notebook whose first status check reports success return
\* SUCCESS after that one check and no sleep
ExecutorsFirstSuccess ==
    (op \in {"sql", "nb"} /\ Done /\ FirstCheckSucceeds)
    => (result.status = "SUCCESS" /\ NumSleeps(trace) = 0 /\ NumProbes(trace) = 1)

\* a status check of run_notebook that reported a terminal life-cycle state
NbTerminalProbe(e) == IsProbe(e) /\ ~RaisedAt(e) /\ e.o.state \in {"TERMINATED", "SKIPPED"}

\* a result or output fetch that raised
FetchRaised(e) == e.ev = "fetch" /\ e.o.state \in {"raise_get", "raise_chunk", "raise"}

\* a text that contains the heading text or the word 'dbx-aidev'
HasHeadingOrWord(t) == \E i \in 1..Len(t) : t[i] = "M" \/ t[i] = "K"

\* a blank character, and a text without the blanks at its end
Blank(c) == c = " " \/ c = "\n"
TrimEnd(t) ==
    SubSeq(t, 1, CHOOSE k \in 0..Len(t) :
                    /\ k > 0 => ~Blank(t[k])
                    /\ \A j \in (k + 1)..Len(t) : Blank(t[j]))

\* p is the beginning of t
StartsWith(t, p) == Len(p) <= Len(t) /\ SubSeq(t, 1, Len(p)) = p

\* in the current run the prompt for this artifact was answered so
Answered(art, ans) == \E i \in 1..Len(asked) : asked[i] = Ask(art, ans)

\* the current run of dbai has ended
RunEnded == spc \in {"done", "failed", "crashed"}

\* the prompts of the current run that were about this artifact
PromptsFor(art) == {i \in 1..Len(asked) : asked[i].art = art}

\* the template command files: the *.md files of templates/.claude/commands
TemplateCommands == {t \in tplCmds.files : IsMd(t[1])}

\* the place of an artifact in the order the command handles them
Rank(art) == CASE art = "root" -> 1 [] art = "docs" -> 2 [] OTHER -> 3

\* what a run makes of each artifact, from that artifact's own state before the
\* run, its own template and the answer to its own prompt
RootOutcome ==
    IF ~tplRoot.exists THEN pre[1]
    ELSE IF ~pre[1].exists THEN tplRoot
    ELSE IF Answered("root", TRUE)
         THEN File(AppendToClaudeMd(tplRoot.text, pre[1].text))
    ELSE pre[1]
DocsOutcome ==
    IF ~tplDocs.exists THEN pre[2]
    ELSE IF ~pre[2].exists \/ Answered("docs", TRUE) THEN Dir(tplDocs.files)
    ELSE pre[2]
CmdsOutcome ==
    IF ~tplCmds.exists THEN pre[3]
    ELSE IF Answered("cmds", FALSE) THEN pre[3]
    ELSE Dir(MergeClaudeCommands(tplCmds.files, pre[3].files))

\* an argument of create_workspace_client that was given with a value: neither
\* left at None nor an empty string
Given(x) == x \notin {"<None>", ""}

\* the fields, besides the status tag, that the results of execute_sql and of
\* run_notebook are said to carry under each tag
SqlFields(tag) ==
    CASE tag = "SUCCESS" -> {"statement_id", "execution_time", "row_count", "results"}
      [] tag \in {"FAILED", "CANCELED"} -> {"statement_id", "error"}
      [] tag = "TIMEOUT" -> {"statement_id", "timeout_seconds"}
      [] tag = "ERROR" -> {"error"}
      [] OTHER -> {"undocumented tag"}
NbFields(tag) ==
    CASE tag = "SUCCESS" -> {"run_id", "run_page_url", "execution_time", "output"}
      [] tag = "FAILED" -> {"run_id", "run_page_url", "error_state", "error_message"}
      [] tag = "TIMEOUT" -> {"run_id", "timeout_seconds"}
      [] tag = "ERROR" -> {"error"}
      [] OTHER -> {"undocumented tag"}

\* the positions of a text at which a line begins with the heading text
HeadingLineStarts(t) == {i \in 1..Len(t) : t[i] = "M" /\ (i = 1 \/ t[i - 1] = "\n")}

\* a status check that reported a pending / running state
PendingProbe(o, e) ==
    /\ IsProbe(e) /\ ~RaisedAt(e)
    /\ IF o = "poll" THEN Upper(e.o.state) \in {"PENDING", "RUNNING", "EXECUTING"}
       ELSE e.o.state \in {"PENDING", "RUNNING"}

\* ceil(T / I) for a positive I, and 0 for a timeout that is not positive
Ceil(T, I) == IF T <= 0 THEN 0 ELSE (T + I - 1) \div I

\* the polling loop of the call was entered
LoopEntered == op = "poll" \/ \E i \in 1..Len(trace) : trace[i] = Ev("submit", NoOutcome)

\* what holds of a polling loop at every moment
LoopBounds ==
    op \in {"poll", "sql", "nb"}
    => /\ \A i \in 1..Len(trace) :
             /\ PendingProbe(op, trace[i]) => (i < Len(trace) /\ trace[i + 1].ev = "sleep")
             /\ trace[i].ev = "sleep" => (i > 1 /\ PendingProbe(op, trace[i - 1]))
       /\ NumProbes(trace) <= Ceil(timeout, interval)
       /\ (Done /\ LoopEntered /\ now - entered = NumSleeps(trace) * interval)
             => now - entered <= timeout + interval
\* the submission call returned, at the time the loop was entered
Submitted == \E i \in 1..Len(trace) : trace[i] = Ev("submit", NoOutcome)

\* execute_sql is called when the clock reads 0 and its submission call returns
\* when the loop is entered: the time the submission call took
SubmissionTook == entered - 0


----------------------------------------------------------------------------
(* Properties *)

\* C1: no exception escapes a public operation: every call that has ended has
\* returned a value, for every input, a negative max_retries included.
C1_NoExceptionEscapes ==
    /\ rpc = "done" => (~retRaised /\ retResult # NoResult)
    /\ Done => result # NoResult

\* C2: poll_until_complete with T > 0 and 0 < I < T, given a probe that never
\* answers with a terminal state, returns the TIMEOUT status, and only once the
\* time elapsed since the call started is at least T.
C2_TimeoutNotBeforeT ==
    (op = "poll" /\ Done /\ timeout > 0 /\ 0 < interval /\ interval < timeout
        /\ NeverTerminal(script))
    => (result = PollTimeout(timeout) /\ Elapsed >= timeout)

\* C3: execute_sql and run_notebook return a TIMEOUT result only when the time
\* elapsed since their start time is at least timeout_seconds; an unknown state
\* or a failed status check is not reported as TIMEOUT while time remains.
C3_TimeoutTagOnlyOnTimeout ==
    (op \in {"sql", "nb"} /\ Done /\ result.status = "TIMEOUT") => Elapsed >= timeout

\* C4: in execute_sql an exception raised by the remote client during submission
\* or during a status poll yields a result whose status is ERROR, with the text.
C4_SqlExceptionIsError ==
    (op = "sql" /\ Done /\ \E i \in 1..Len(trace) : RaisedAt(trace[i]))
    => (result.status = "ERROR" /\ "error" \in DOMAIN result)

\* C5: run_notebook_with_retry with max_retries n >= 0 invokes run_notebook exactly
\* min(k, n+1) times, k the index of the first SUCCESS outcome (any other status
\* is retried), and returns the result of the last invoked attempt.
C5_RetryCount ==
    (rpc = "done" /\ maxRetries >= 0)
    => /\ ~retRaised
       /\ Len(Runs(rtrace)) = Min(FirstSuccess(runScript), maxRetries + 1)
       /\ retResult = [status |-> runScript[Len(Runs(rtrace))], run_id |-> Len(Runs(rtrace))]
       /\ retResult = Last(Runs(rtrace)).res

\* C5 witness: max_retries = 2 and run_notebook always FAILED: three invocations,
\* the third result returned.
C5_Witness ==
    /\ rpc = "done" /\ maxRetries = 2
    /\ \A i \in 1..3 : runScript[i] = "FAILED"
    /\ Len(Runs(rtrace)) = 3
    /\ retResult = [status |-> "FAILED", run_id |-> 3]

\* C6 as stated: for every working directory and every template set, a second run
\* of dbai with every prompt accepted leaves the files and their contents as the
\* first run with every prompt accepted left them.
C6_Original ==
    (spc = "done" /\ runNo >= 2 /\ allYes) => Cwd = pre

\* C6 (amended): the same for every template set whose CLAUDE.md is absent or
\* contains the heading text or the word 'dbx-aidev'.
C6_Idempotent ==
    (spc = "done" /\ runNo >= 2 /\ allYes /\ (tplRoot.exists => HasHeadingOrWord(tplRoot.text)))
    => Cwd = pre

\* C6 witness: a second all-accepted run (three prompts) over a CLAUDE.md that the
\* first run appended the template's section to.
C6_Witness ==
    /\ spc = "done" /\ runNo = 2 /\ allYes /\ Len(asked) = 3
    /\ tplRoot = File(<<"x", "\n", "M">>)
    /\ root = File(<<"x", "\n", "\n", "M">>)
    /\ Cwd = pre

\* C7 as stated: a probe whose first answer is SUCCESS makes poll_until_complete
\* return that status with no sleep, for every timeout_seconds and poll_interval;
\* likewise execute_sql and run_notebook when the first status check reports success.
C7_Original ==
    /\ (op = "poll" /\ Done /\ script[1] = St("SUCCESS"))
       => (result = [state |-> "SUCCESS"] /\ NumSleeps(trace) = 0)
    /\ ExecutorsFirstSuccess

\* C7 (amended): the same for every timeout_seconds > 0 and every poll_interval.
C7_FirstSuccessNoSleep ==
    /\ (op = "poll" /\ Done /\ timeout > 0 /\ script[1] = St("SUCCESS"))
       => (result = [state |-> "SUCCESS"] /\ NumSleeps(trace) = 0 /\ NumProbes(trace) = 1)
    /\ ExecutorsFirstSuccess

\* C7 witness: poll_until_complete with timeout 1 returned the SUCCESS status of
\* the first probe call without sleeping.
C7_Witness ==
    /\ op = "poll" /\ Done /\ timeout = 1 /\ script[1] = St("SUCCESS")
    /\ result = [state |-> "SUCCESS"] /\ NumSleeps(trace) = 0

\* C8: in each of the three loops a status check that returns a tag in neither the
\* terminal nor the pending set ends the loop at once: the call has returned, and
\* no sleep and no further status check follow it.
C8_UnknownBreaks ==
    \A i \in 1..Len(trace) :
        UnknownProbe(op, trace[i]) => (i = Len(trace) /\ Done /\ result # NoResult)

\* C8 witness: run_notebook saw a pending state, slept, then saw an unknown
\* life-cycle state and returned.
C8_Witness ==
    /\ Done /\ op = "nb" /\ Len(trace) >= 4
    /\ UnknownProbe(op, Last(trace))
    /\ NumSleeps(trace) = 1

\* C9: a status check that raises ends the loop at once: it is the last thing the
\* call does (no retry, no sleep) and the call returns a value.
C9_ProbeRaiseBreaks ==
    \A i \in 1..Len(trace) :
        (IsProbe(trace[i]) /\ RaisedAt(trace[i]))
        => (i = Len(trace) /\ Done /\ result # NoResult)

\* C9 witness: the second status check of execute_sql raised and the call returned.
C9_Witness ==
    /\ Done /\ op = "sql" /\ NumProbes(trace) = 2
    /\ RaisedAt(Last(trace)) /\ IsProbe(Last(trace))

\* C10: a result or output fetch that raises after a reported success leaves the
\* status SUCCESS: execute_sql returns empty columns and data with the error text
\* in the results, run_notebook returns the error in the output.
C10_FetchFailureKeepsSuccess ==
    (Done /\ trace # <<>> /\ FetchRaised(Last(trace)))
    => /\ result.status = "SUCCESS"
       /\ op = "sql" => /\ result.results.columns = <<>>
                        /\ result.results.data = <<>>
                        /\ result.results.error = Last(trace).o.state
                        /\ result.row_count = 0
       /\ op = "nb" => result.output = [error |-> "output error"]

\* C10 witness: execute_sql returned SUCCESS although fetching the result page raised.
C10_Witness ==
    /\ Done /\ op = "sql" /\ trace # <<>> /\ Last(trace) = Ev("fetch", St("raise_chunk"))
    /\ result.status = "SUCCESS" /\ result.results.error = "raise_chunk"

\* C11: run_notebook fetches the notebook output if and only if a status check saw
\* TERMINATED or SKIPPED together with result state SUCCESS; a terminal life-cycle
\* state with any other result state (an absent one is labelled UNKNOWN) is the
\* last thing the call does and yields FAILED with that label and a message.
C11_OutputFetchedIffSuccess ==
    op = "nb" =>
       /\ (\E i \in 1..Len(trace) : trace[i].ev = "fetch")
          <=> (\E i \in 1..Len(trace) :
                  NbTerminalProbe(trace[i]) /\ trace[i].o.result = "SUCCESS")
       /\ \A i \in 1..Len(trace) :
             (NbTerminalProbe(trace[i]) /\ trace[i].o.result # "SUCCESS")
             => /\ i = Len(trace) /\ Done
                /\ result.status = "FAILED"
                /\ result.error_state = (IF trace[i].o.result = "-" THEN "UNKNOWN"
                                         ELSE trace[i].o.result)
                /\ "error_message" \in DOMAIN result

\* C11 witness: after a pending check and a sleep, run_notebook saw SKIPPED with no
\* result state and returned FAILED / UNKNOWN without fetching output.
C11_Witness ==
    /\ Done /\ op = "nb" /\ Len(trace) >= 4
    /\ Last(trace) = Ev("probe", Run("SKIPPED", "-"))
    /\ result.status = "FAILED" /\ result.error_state = "UNKNOWN"

\* C12: execute_sql_file on a path that does not exist returns exactly status ERROR
\* with error 'File not found: <path>' and never enters execute_sql (no remote call
\* is made); any other failure to read the file returns status ERROR with the text
\* of that exception.
C12_FileNotFound ==
    /\ sqlFile.kind = "missing"
          => /\ Done /\ op # "sql" /\ trace = <<>>
             /\ result = [status |-> "ERROR",
                          error |-> "File not found: " \o sqlFile.path]
    /\ sqlFile.kind = "denied"
          => /\ Done /\ op # "sql" /\ trace = <<>>
             /\ result = [status |-> "ERROR",
                          error |-> "[Errno 13] Permission denied: " \o sqlFile.path]

\* C12 witness: execute_sql_file was called on a missing path and has returned.
C12_Witness ==
    /\ Done /\ sqlFile = [path |-> "b.sql", kind |-> "missing"]
    /\ result.error = "File not found: b.sql"

\* C13: when the statement is reported SUCCEEDED and its manifest is absent or
\* reports zero total rows, execute_sql returns SUCCESS with empty columns, empty
\* data, results.total_row_count = 0 and row_count = 0, and never asks for the
\* result page.
C13_EmptyManifestNoFetch ==
    (op = "sql" /\ Done /\ trace # <<>> /\ Last(trace).ev = "fetch"
        /\ Last(trace).o.state \in {"no_manifest", "zero_rows"})
    => /\ result.status = "SUCCESS"
       /\ result.results = [columns |-> <<>>, data |-> <<>>, total_row_count |-> 0]
       /\ result.row_count = 0
       /\ \A i \in 1..Len(trace) : trace[i].ev # "chunk"

\* C13 witness: execute_sql returned after a statement that succeeded with a
\* manifest of zero total rows (whose schema names a column).
C13_Witness ==
    /\ op = "sql" /\ Done /\ trace # <<>>
    /\ Last(trace) = Ev("fetch", St("zero_rows"))
    /\ Response("zero_rows").manifest /\ Response("zero_rows").columns # <<>>
    /\ result.row_count = 0

\* C14: on a successful statement with a non-empty manifest whose first page is
\* fetched, execute_sql returns the manifest's column names, one mapping per row
\* of the page in which every column name carries the value at its position in
\* the row (at the last of its positions when the name is repeated), and the
\* manifest's total row count; row_count is the number of mappings in data.
C14_PageAsMappings ==
    (op = "sql" /\ Done /\ trace # <<>> /\ Last(trace).ev = "fetch")
    => LET r == Response(Last(trace).o.state)
           res == result.results
           cols == IF r.schema THEN r.columns ELSE <<>>
           rows == IF r.hasData THEN r.rows ELSE <<>>
       IN  (r.get = "ok" /\ r.manifest /\ r.total > 0 /\ r.chunk = "ok")
           => /\ result.status = "SUCCESS"
              /\ \E i \in 1..Len(trace) : trace[i].ev = "chunk"
              /\ res.columns = cols
              /\ Len(res.data) = Len(rows)
              /\ \A i \in 1..Len(rows) :
                    /\ DOMAIN res.data[i] \subseteq {cols[j] : j \in 1..Len(cols)}
                    /\ \A j \in 1..Min(Len(cols), Len(rows[i])) :
                          (\A k \in (j + 1)..Min(Len(cols), Len(rows[i])) :
                              cols[k] # cols[j])
                          => res.data[i][cols[j]] = rows[i][j]
              /\ res.total_row_count = r.total
              /\ result.row_count = Len(res.data)

\* C14 witness: execute_sql returned the two rows of the first page of a statement
\* whose manifest counts five rows.
C14_Witness ==
    /\ op = "sql" /\ Done /\ trace # <<>>
    /\ Last(trace) = Ev("fetch", St("two_rows"))
    /\ result.row_count = 2 /\ result.results.total_row_count = 5
    /\ result.results.data[2] = [c1 |-> "w1", c2 |-> "w2"]

\* C15: a status check of execute_sql that observes FAILED or CANCELED is the last
\* thing the call does (no further check, no sleep, no result fetch): the call has
\* returned a result whose status is the observed state, with the statement id and
\* an error text.
C15_FailedOrCanceledReturns ==
    op = "sql" =>
       \A i \in 1..Len(trace) :
          (trace[i].ev = "probe" /\ trace[i].o.state \in {"FAILED", "CANCELED"})
          => /\ i = Len(trace) /\ Done
             /\ DOMAIN result = {"status", "statement_id", "error"}
             /\ result.status = trace[i].o.state
             /\ result.statement_id = "stmt"
             /\ result.error = "remote error"

\* C15 witness: execute_sql saw a pending state, slept, saw CANCELED and returned
\* status CANCELED.
C15_Witness ==
    /\ op = "sql" /\ Done /\ NumSleeps(trace) = 1
    /\ Last(trace) = Ev("probe", St("CANCELED"))
    /\ result.status = "CANCELED"

\* C16: in run_notebook_with_retry no delay precedes the first attempt, exactly one
\* delay of 30 seconds precedes every later attempt, and no delay follows the last
\* attempt: when the call has ended, delays = run_notebook invocations - 1.
C16_DelaysBetweenAttempts ==
    /\ \A i \in 1..Len(rtrace) :
          /\ rtrace[i].ev = "sleep"
                => /\ rtrace[i].secs = 30
                   /\ i > 1 /\ rtrace[i - 1].ev = "run"
                   /\ i < Len(rtrace) /\ rtrace[i + 1].ev = "run"
          /\ (rtrace[i].ev = "run" /\ i > 1) => rtrace[i - 1].ev = "sleep"
    /\ rpc = "done" => Len(Sleeps(rtrace)) = Len(Runs(rtrace)) - 1

\* C17: when CLAUDE.md already contains the heading text or the word 'dbx-aidev'
\* and the user accepts the prompt, the file after the run is identical to the
\* file before it.
C17_AppendNoOpWhenPresent ==
    (Answered("root", TRUE) /\ HasHeadingOrWord(pre[1].text)) => root = pre[1]

\* C17 witness: the prompt was accepted for a CLAUDE.md that holds the word
\* 'dbx-aidev' followed by a blank, over a template that has a section to append.
C17_Witness ==
    /\ spc = "done" /\ Answered("root", TRUE)
    /\ pre[1] = File(<<"K", " ">>) /\ tplRoot = File(<<"M", "x">>)
    /\ root = File(<<"K", " ">>)

\* C18 as stated: when CLAUDE.md contains neither the heading text nor the word
\* and the user accepts the prompt, the resulting document starts with the
\* complete original content, for every original content.
C18_Original ==
    (Answered("root", TRUE) /\ ~HasHeadingOrWord(pre[1].text))
    => StartsWith(root.text, pre[1].text)

\* C18 (amended): the resulting document is the original content without the
\* blanks at its end, followed by two line breaks and the template section.
C18_AppendAfterTrimmedOriginal ==
    (Answered("root", TRUE) /\ ~HasHeadingOrWord(pre[1].text))
    => root.text = TrimEnd(pre[1].text) \o <<"\n", "\n">>
                      \o ExtractDatabricksSection(tplRoot.text)

\* C18 witness: the original was a blank followed by text and a blank; the result
\* keeps the leading blank, drops the trailing one and ends with the section.
C18_Witness ==
    /\ spc = "done" /\ Answered("root", TRUE) /\ runNo = 1
    /\ pre[1] = File(<<" ", "x">>) /\ tplRoot = File(<<"x", "\n", "M">>)
    /\ root = File(<<" ", "x", "\n", "\n", "M">>)

\* C19: when CLAUDE.md, dbx_ai_docs and at least one command file exist before the
\* run and the user declines every prompt, the run leaves the working directory
\* as it was (nothing created, modified or deleted) and the command exits zero.
C19_DeclineAllChangesNothing ==
    (/\ RunEnded
     /\ pre[1].exists /\ pre[2].exists
     /\ \E f \in pre[3].files : IsMd(f[1])
     /\ \A i \in 1..Len(asked) : ~asked[i].ans)
    => /\ Cwd = pre
       /\ asked # <<>> => spc = "done"

\* C19 witness: three prompts were asked and declined, over templates that differ
\* from what the directory holds.
C19_Witness ==
    /\ spc = "done" /\ Len(asked) = 3 /\ \A i \in 1..3 : ~asked[i].ans
    /\ docs.exists /\ docs # tplDocs /\ <<"a.md", "u">> \in cmds.files
    /\ <<"a.md", "t">> \in tplCmds.files /\ root = File(<<"x", "\n">>)
    /\ Cwd = pre

\* C20: merging command files never overwrites: once the merge has run, every file
\* that was in .claude/commands before the run is there with unchanged content
\* (also under the name of a template command file), every template command file
\* name is present, and every file added equals its template.
C20_MergeNeverOverwrites ==
    (spc = "done" /\ tplCmds.exists /\ ~Answered("cmds", FALSE))
    => /\ \A f \in pre[3].files :
             f \in cmds.files /\ \A g \in cmds.files : g[1] = f[1] => g = f
       /\ \A t \in tplCmds.files :
             IsMd(t[1]) => \E g \in cmds.files : g[1] = t[1]
       /\ \A g \in cmds.files \ pre[3].files : g \in tplCmds.files /\ IsMd(g[1])

\* C20 witness: the merge was accepted over a directory holding its own a.md; it
\* kept that file and added the template's b.md.
C20_Witness ==
    /\ spc = "done" /\ Answered("cmds", TRUE) /\ runNo = 1
    /\ pre[3] = Dir({<<"a.md", "u">>})
    /\ <<"a.md", "t">> \in tplCmds.files
    /\ cmds = Dir({<<"a.md", "u">>, <<"b.md", "t">>})

C22_ReplaceDocs ==
    /\ (Answered("docs", TRUE) /\ pre[2].isdir)
          => /\ docs.exists /\ docs.isdir /\ docs.files = tplDocs.files
             /\ \A f \in pre[2].files : f \in docs.files => f \in tplDocs.files
    /\ Answered("docs", FALSE) => docs = pre[2]

\* C22 witness: the prompt was accepted over a directory holding its own h.md;
\* afterwards only the template's g.md is there.
C22_Witness ==
    /\ spc = "done" /\ Answered("docs", TRUE)
    /\ pre[2] = Dir({<<"h.md", "u">>})
    /\ docs = Dir({<<"g.md", "t">>})

\* C23: dbai handles CLAUDE.md, dbx_ai_docs and .claude/commands in that order
\* and independently: an artifact is untouched until its step, a prompt is asked
\* only for an artifact that existed before the run, at most once per artifact and
\* in the fixed order, and what a run that found its templates does to an artifact
\* depends only on that artifact, its template and the answer to its own prompt.
C23_IndependentInOrder ==
    /\ \A i \in 1..Len(asked) :
          /\ \A j \in 1..Len(asked) : i < j => Rank(asked[i].art) < Rank(asked[j].art)
          /\ pre[Rank(asked[i].art)].exists
    /\ spc = "root" => (Cwd = pre /\ asked = <<>>)
    /\ spc = "docs" => (root = RootOutcome /\ docs = pre[2] /\ cmds = pre[3]
                         /\ PromptsFor("docs") = {} /\ PromptsFor("cmds") = {})
    /\ spc = "cmds" => (root = RootOutcome /\ docs = DocsOutcome /\ cmds = pre[3]
                         /\ PromptsFor("cmds") = {})
    /\ (RunEnded /\ tplDir) => (root = RootOutcome /\ cmds = CmdsOutcome)

\* C24: dbai exits non-zero if and only if the template directory cannot be
\* located, and then asks no prompt and leaves the working directory as it was;
\* in every other case it exits zero after printing the completion lines,
\* whatever the answers.
C24_ExitCode ==
    RunEnded => /\ spc # "done" <=> ~tplDir
                /\ ~tplDir => (asked = <<>> /\ Cwd = pre)

\* C25: run_notebook_from_local uploads before it submits: a job is submitted only
\* after the local file was read and the upload call returned earlier in the same
\* call; when the read or the upload fails, the call returns status ERROR and no
\* job is submitted.
C25_UploadBeforeSubmit ==
    local # NoLocal
    => /\ \A i \in 1..Len(trace) :
             trace[i].ev = "submit"
             => /\ local.read = "ok"
                /\ \E j \in 1..(i - 1) : trace[j] = Ev("upload", NoOutcome)
       /\ local.read = "raise" => trace = <<>>
       /\ (local.read = "raise" \/ local.upload = "raise")
             => /\ Done /\ result.status = "ERROR"
                /\ \A i \in 1..Len(trace) : trace[i].ev # "submit"

\* C25 witness: the upload raised after the file was read; the call returned ERROR
\* with the upload as its only remote call.
C25_Witness ==
    /\ Done /\ local = [read |-> "ok", upload |-> "raise"]
    /\ trace = <<Ev("upload", Raise)>>
    /\ result = [status |-> "ERROR", error |-> "upload error"]

\* C26: create_workspace_client makes exactly one WorkspaceClient call, for every
\* combination of given and missing profile, host and token: with the profile
\* alone when a profile is given, else with host and token when both are given,
\* else with no argument at all (a host without a token, or a token without a
\* host, is ignored).
C26_OneCredentialPath ==
    ccall.made
    => /\ Given(cargs.profile) => ccall.kwargs = {<<"profile", cargs.profile>>}
       /\ (~Given(cargs.profile) /\ Given(cargs.host) /\ Given(cargs.token))
             => ccall.kwargs = {<<"host", cargs.host>>, <<"token", cargs.token>>}
       /\ (~Given(cargs.profile) /\ ~(Given(cargs.host) /\ Given(cargs.token)))
             => ccall.kwargs = {}

\* C26 witness: a token without a host and without a profile: the client was
\* created with no arguments.
C26_Witness ==
    /\ ccall.made /\ cargs = [profile |-> "<None>", host |-> "<None>", token |-> "a"]
    /\ ccall.kwargs = {}

\* C27: the status tag of a returned result determines its other fields and is one
\* of the documented tags: execute_sql returns SUCCESS, FAILED, CANCELED, TIMEOUT
\* or ERROR and run_notebook returns SUCCESS, FAILED, TIMEOUT or ERROR, each with
\* exactly the fields listed for that tag.
C27_TagDeterminesFields ==
    Done => /\ op = "sql"
               => /\ result.status \in {"SUCCESS", "FAILED", "CANCELED", "TIMEOUT", "ERROR"}
                  /\ DOMAIN result = {"status"} \cup SqlFields(result.status)
            /\ op = "nb"
               => /\ result.status \in {"SUCCESS", "FAILED", "TIMEOUT", "ERROR"}
                  /\ DOMAIN result = {"status"} \cup NbFields(result.status)

\* C27 witness: execute_sql left its loop after two pending checks and returned a
\* TIMEOUT result with the statement id and timeout_seconds.
C27_Witness ==
    /\ Done /\ op = "sql" /\ NumSleeps(trace) = 2
    /\ result.status = "TIMEOUT"
    /\ DOMAIN result = {"status", "statement_id", "timeout_seconds"}

\* C28: _extract_databricks_section returns the template text from the first line
\* that starts with the heading text through the end, without any line before it;
\* when no line starts with the heading text it returns the whole template.
C28_ExtractFromMarker ==
    tplRoot.exists
    => LET t == tplRoot.text
           hs == HeadingLineStarts(t)
       IN  ExtractDatabricksSection(t) =
              IF hs = {} THEN t
              ELSE SubSeq(t, CHOOSE i \in hs : \A j \in hs : i <= j, Len(t))

\* C28 witness: the template has a line before its heading line; the section
\* appended to CLAUDE.md is the heading line alone.
C28_Witness ==
    /\ spc = "done" /\ Answered("root", TRUE) /\ runNo = 1
    /\ tplRoot = File(<<"x", "\n", "M">>) /\ pre[1] = File(<<"x">>)
    /\ ExtractDatabricksSection(tplRoot.text) = <<"M">>
    /\ root = File(<<"x", "\n", "\n", "M">>)

\* C29: every polling loop terminates for every probe behaviour, given that each
\* status check returns or raises and each sleep lasts its positive interval I: a
\* sleep follows each observation of a pending / running state and nothing else,
\* the status check is invoked at most ceil(T / I) times for timeout T, and when
\* the status checks take no time the loop returns no later than T + I after it
\* was entered.
C29_LoopsTerminate ==
    /\ []LoopBounds
    /\ (pc \in {"submit", "loop"}) ~> Done

\* C29 witness: poll_until_complete with T = 3 and I = 2 saw a pending state at
\* times 0 and 2 (ceil(3 / 2) status checks) and returned at time 4 <= T + I.
C29_Witness ==
    /\ Done /\ op = "poll" /\ timeout = 3 /\ interval = 2
    /\ NumProbes(trace) = 2 /\ NumSleeps(trace) = 2
    /\ now - entered = 4

\* C30: execute_sql's clock runs from just before the submission call: when the
\* submission returns with the elapsed time already at least timeout_seconds, the
\* statement's status is never checked and the result is TIMEOUT, whatever the
\* statement's state is. run_notebook's clock starts after the submission: once
\* the submission has returned and timeout_seconds > 0, a call that has returned
\* has checked the run status at least once.
C30_ClockStart ==
    /\ (op = "sql" /\ Submitted) => start = entered - SubmissionTook
    /\ (op = "sql" /\ Submitted /\ SubmissionTook >= timeout)
       => /\ NumProbes(trace) = 0
          /\ Done => (result.status = "TIMEOUT" /\ now = entered)
    /\ (op = "nb" /\ Submitted)
       => /\ start = entered
          /\ (Done /\ timeout > 0) => NumProbes(trace) >= 1

\* C30 witness: execute_sql with timeout_seconds = 1 whose submission took 1 s
\* returned TIMEOUT without a status check although the statement had SUCCEEDED.
C30_Witness ==
    /\ Done /\ op = "sql" /\ timeout = 1 /\ SubmissionTook = 1
    /\ script[1] = St("SUCCEEDED")
    /\ NumProbes(trace) = 0 /\ result.status = "TIMEOUT"


====
